---- MODULE Spec2Model ----
(***************************************************************************)
(* Eye-Fi card control: the session initialisation (init_card and the      *)
(* steps it calls), the file channel primitives (read_from, write_to,      *)
(* zero_file), the mount locator and the octal-escape decoder of           *)
(* python-implementation/eyefy-config.py and python-implementation/eyefi.py*)
(*                                                                         *)
(* Conventions of the model                                                *)
(*  - a character is its code point (ord), a string a sequence of them;    *)
(*  - a mount "X:\" is written by its drive letter "X"; a path is the      *)
(*    sequence of the components os.path.join was given, so the relative   *)
(*    path "RSPM" is <<"RSPM">> and X:\EyeFi\rspm is <<"X","EyeFi","rspm">>*)
(*  - a file is its length and its first four bytes: no code path looks    *)
(*    at any other byte of a file;                                         *)
(*  - a Python value is a record tagged by its type.                       *)
(***************************************************************************)
EXTENDS Integers, Sequences, FiniteSets, TLC

VARIABLES platform, vols, bufAddr, fs, eyefi_buf, eyefi_seq, inited, last,
          es_in, es_out, es_again, es_pc

vars == <<platform, vols, bufAddr, fs, eyefi_buf, eyefi_seq, inited, last,
          es_in, es_out, es_again, es_pc>>

sessionVars == <<platform, vols, bufAddr, fs, eyefi_buf, eyefi_seq, inited, last>>

escVars == <<es_in, es_out, es_again, es_pc>>

(***************************************************************************)
(* Bounds                                                                  *)
(***************************************************************************)
\* drive letters, from "A" on, that may exist on the host
NumDrives == 2

\* longest string given to replace_escapes
MaxLen == 6

(***************************************************************************)
(* Program constants                                                       *)
(***************************************************************************)
EYEFI_BUF_SIZE == 2048

EYEFI_VOLUME_ID == "AA52-6922"

\* length of unaligned_buf, bytearray(EYEFI_BUF_SIZE * 2)
UnalignedBufLen == EYEFI_BUF_SIZE * 2

\* the seed init_card gives a sequence number read as 0
SeqSeed == 4660

\* positional parameters of def write_to(file_path, data)
WriteToParams == 2

\* positional arguments of the call write_to("RSPM", zbuf, EYEFI_BUF_SIZE)
ZeroCardFilesWriteArgs == 3

\* the drive letters locate_eyefi_mount scans, in order
DriveLetters ==
  <<"A", "B", "C", "D", "E", "F", "G", "H", "I", "J", "K", "L", "M",
    "N", "O", "P", "Q", "R", "S", "T", "U", "V", "W", "X", "Y", "Z">>

(***************************************************************************)
(* Files and Python values                                                 *)
(***************************************************************************)
Absent == [present |-> FALSE, head |-> <<>>, len |-> 0]

Min(a, b) == IF a < b THEN a ELSE b

Max(a, b) == IF a < b THEN b ELSE a

\* a file of n bytes whose first bytes are h
File(h, n) == [present |-> TRUE, head |-> SubSeq(h, 1, Min(Len(h), Min(n, 4))), len |-> n]

\* bytearray(n) and b'\x00' * n
ZeroBytes(n) == File(<<0, 0, 0, 0>>, n)

\* data[:n]
Slice(c, n) == File(c.head, Min(c.len, n))

NoPath == <<>>

\* the mount value None
NoMount == "None"

PyNone == [t |-> "None", n |-> 0, data |-> Absent, path |-> NoPath]

PyInt(i) == [t |-> "int", n |-> i, data |-> Absent, path |-> NoPath]

PyBytes(c) == [t |-> "bytes", n |-> 0, data |-> c, path |-> NoPath]

PyStr(p) == [t |-> "str", n |-> 0, data |-> Absent, path |-> p]

\* the value of eyefi_buf before align_buf has run
BufNone == [kind |-> "None", len |-> 0]

\* the truth value Python gives eyefi_buf: None and an empty memoryview are false
Truthy(buf) == buf.kind # "None" /\ buf.len > 0

\* whether a call with nargs positional arguments binds to nparams parameters
CallBinds(nparams, nargs) == nargs = nparams

RECURSIVE FromBytesLE(_)
\* int.from_bytes(b, "little")
FromBytesLE(b) == IF b = <<>> THEN 0 ELSE b[1] + 256 * FromBytesLE(Tail(b))

(***************************************************************************)
(* Channel paths                                                           *)
(***************************************************************************)
ChannelFiles == {"REQC", "REQM", "RSPC", "RSPM"}

eyefi_file_name(file) ==
  CASE file = "REQC" -> "reqc"
    [] file = "REQM" -> "reqm"
    [] file = "RSPC" -> "rspc"
    [] file = "RSPM" -> "rspm"
    [] file = "RDIR" -> ""
    [] OTHER -> "None"

\* None when the name is None or empty, else os.path.join(mnt, "EyeFi", filename)
eyefi_file_on(file, mnt) ==
  LET filename == eyefi_file_name(file)
  IN  IF filename = "None" \/ filename = ""
        THEN PyNone
        ELSE PyStr(<<mnt, "EyeFi", filename>>)

Drives == {DriveLetters[i] : i \in 1..NumDrives}

\* every path the model's file system holds
Paths ==
  {<<f>> : f \in ChannelFiles} \cup
  {<<d, "EyeFi", eyefi_file_name(f)>> : d \in Drives, f \in ChannelFiles}

(***************************************************************************)
(* Mount locator                                                           *)
(***************************************************************************)
\* what a drive letter can be on the host: no such drive, a drive whose
\* volume query fails, a volume with another label, the Eye-Fi volume
VolStates == {"absent", "noinfo", "other", "eyefi"}

\* os.path.exists(drive_path)
path_exists(i) == i <= NumDrives /\ vols[i] # "absent"

\* GetVolumeInformationW succeeded and the name read equals EYEFI_VOLUME_ID
dev_has_eyefi_vol_id(i) ==
  /\ platform = "Windows"
  /\ i <= NumDrives
  /\ vols[i] \notin {"absent", "noinfo"}
  /\ (IF vols[i] = "eyefi" THEN EYEFI_VOLUME_ID ELSE "NO NAME") = EYEFI_VOLUME_ID

RECURSIVE ScanDrives(_)
\* the for loop of locate_eyefi_mount, from the i-th letter on
ScanDrives(i) ==
  IF i > Len(DriveLetters) THEN NoMount
  ELSE IF path_exists(i) /\ dev_has_eyefi_vol_id(i) THEN DriveLetters[i]
  ELSE ScanDrives(i + 1)

locate_eyefi_mount == IF platform = "Windows" THEN ScanDrives(1) ELSE NoMount

\* the test "not mnt" of init_card
MountMissing_skipped(mnt) == FALSE

MountMissing(mnt) == mnt = NoMount

(***************************************************************************)
(* Scratch buffer                                                          *)
(***************************************************************************)
\* addresses id(unaligned_buf) can be: the address of a live object, which
\* lies above the pages the operating system never maps
ObjAddrs == {65536, 69640, 1073741840}

\* (a + EYEFI_BUF_SIZE - 1) & ~(EYEFI_BUF_SIZE - 1)
AlignUp(a) == ((a + EYEFI_BUF_SIZE - 1) \div EYEFI_BUF_SIZE) * EYEFI_BUF_SIZE

\* memoryview(unaligned_buf)[addr:], a slice that starts at most at the end
align_buf ==
  LET addr == AlignUp(bufAddr)
  IN  [kind |-> "memoryview", len |-> Max(0, UnalignedBufLen - addr)]

\* bytes(eyefi_buf[:4]); unaligned_buf is zero-filled and never written
BufHead(buf) == [i \in 1..Min(4, buf.len) |-> 0]

(***************************************************************************)
(* File channel primitives.  Each takes the file system and the step of    *)
(* the call the host makes fail, and gives what the call returns (ret),    *)
(* what really happened (cause), the line it printed (msg) and the files   *)
(* it opened (acc).                                                        *)
(***************************************************************************)
ReadFaults == {"none", "open", "mmap"}

WriteFaults == {"none", "open", "write", "flush", "fsync"}

ZeroFaults == {"none", "open", "write", "fsync", "close"}

Access(op, path) == [op |-> op, path |-> path]

read_from(file_path, fsys, fault) ==
  LET f   == fsys[file_path]
      acc == <<Access("read", file_path)>>
  IN  IF ~f.present
        \* open raises FileNotFoundError
        THEN [ret |-> PyNone, cause |-> "notfound", msg |-> "File not found", acc |-> acc]
      ELSE IF fault = "open" \/ fault = "mmap" \/ f.len = 0
        \* open raises another OSError, or mmap raises (ValueError on an empty file)
        THEN [ret |-> PyNone, cause |-> "ioerror", msg |-> "Error reading from file", acc |-> acc]
      ELSE [ret |-> PyBytes(Slice(f, EYEFI_BUF_SIZE)), cause |-> "ok", msg |-> "", acc |-> acc]

write_to(file_path, data, fsys, fault) ==
  LET acc == <<Access("write", file_path)>>
      err == [ret |-> PyNone, cause |-> "failed", msg |-> "Error writing to file",
              acc |-> acc, synced |-> FALSE]
  IN  CASE fault = "open" ->
             [fs |-> fsys] @@ err
        [] fault \in {"write", "flush"} ->
             \* the file was created or truncated by open, the data never left the buffer
             [fs |-> [fsys EXCEPT ![file_path] = File(<<>>, 0)]] @@ err
        [] fault = "fsync" ->
             [fs |-> [fsys EXCEPT ![file_path] = data]] @@ err
        [] OTHER ->
             [fs |-> [fsys EXCEPT ![file_path] = data], ret |-> PyNone, cause |-> "ok",
              msg |-> "", acc |-> acc, synced |-> TRUE]

\* e.errno of the OSError each failing step raises
Errno(fault) ==
  CASE fault = "open" -> 13
    [] fault = "write" -> 28
    [] fault = "fsync" -> 5
    [] OTHER -> 28

zero_file(file, mnt, fsys, fault) ==
  LET fname == <<mnt, "EyeFi", file>>
      acc   == <<Access("write", fname)>>
      err   == [ret |-> PyInt(Errno(fault)), cause |-> "failed",
                msg |-> "Error creating control file", acc |-> acc, synced |-> FALSE]
  IN  CASE fault = "open" ->
             [fs |-> fsys] @@ err
        [] fault \in {"write", "fsync", "close"} ->
             \* os.fsync runs on the descriptor while the zeros are still buffered
             [fs |-> [fsys EXCEPT ![fname] = File(<<>>, 0)]] @@ err
        [] OTHER ->
             \* the buffered zeros reach the file when the with block closes it,
             \* after the fsync
             [fs |-> [fsys EXCEPT ![fname] = ZeroBytes(EYEFI_BUF_SIZE)], ret |-> PyInt(0),
              cause |-> "ok", msg |-> "", acc |-> acc, synced |-> FALSE]

(***************************************************************************)
(* Session steps                                                           *)
(***************************************************************************)
\* read_from(file), then int.from_bytes(eyefi_buf[:4], "little"): the bytes
\* read_from returned are dropped; subscripting None raises TypeError
read_seq_from(file, fsys, buf, fault) ==
  LET r == read_from(<<file>>, fsys, fault)
  IN  IF buf.kind = "None"
        THEN [raised |-> TRUE, value |-> 0, acc |-> r.acc]
        ELSE [raised |-> FALSE, value |-> FromBytesLE(BufHead(buf)), acc |-> r.acc]

\* whether zero_card_files gets past its call of write_to
ClearingRuns == CallBinds(WriteToParams, ZeroCardFilesWriteArgs)

\* write_to("RSPM", zbuf, EYEFI_BUF_SIZE); read_from("REQM"); read_from("REQC");
\* read_from("RSPM").  The call of write_to raises TypeError unless its three
\* arguments bind to write_to's parameters.
zero_card_files(fsys, wf, rf) ==
  IF ~ClearingRuns
    THEN [raised |-> TRUE, fs |-> fsys, acc |-> <<>>]
    ELSE LET w  == write_to(<<"RSPM">>, ZeroBytes(EYEFI_BUF_SIZE), fsys, wf)
             r1 == read_from(<<"REQM">>, w.fs, rf[1])
             r2 == read_from(<<"REQC">>, w.fs, rf[2])
             r3 == read_from(<<"RSPM">>, w.fs, rf[3])
         IN  [raised |-> FALSE, fs |-> w.fs, acc |-> w.acc \o r1.acc \o r2.acc \o r3.acc]

\* the faults a step can meet: none when the step never runs
FaultsOf(S, runs) == IF runs THEN S ELSE {"none"}

\* the record of the call that ended last
Rec(op, outcome, steps, acc, ret, cause, msg, synced) ==
  [op |-> op, outcome |-> outcome, steps |-> steps, acc |-> acc, ret |-> ret,
   cause |-> cause, msg |-> msg, synced |-> synced,
   pre_seq |-> eyefi_seq, pre_buf |-> eyefi_buf, after_init |-> inited]

init_card ==
  IF Truthy(eyefi_buf)
    THEN /\ last' = Rec("init_card", "AlreadyInitialized", <<>>, <<>>, PyNone, "ok", "", FALSE)
         /\ UNCHANGED <<platform, vols, bufAddr, fs, eyefi_buf, eyefi_seq, inited>>
    ELSE LET mnt == locate_eyefi_mount IN
      IF MountMissing(mnt)
        THEN /\ last' = Rec("init_card", "Unavailable", <<"Locating">>, <<>>, PyNone,
                            "ok", "", FALSE)
             /\ UNCHANGED <<platform, vols, bufAddr, fs, eyefi_buf, eyefi_seq, inited>>
        ELSE \E wf \in FaultsOf(WriteFaults, ClearingRuns),
                rf \in [1..3 -> FaultsOf(ReadFaults, ClearingRuns)],
                sf \in FaultsOf(ReadFaults, ClearingRuns) :
          LET buf == align_buf
              z   == zero_card_files(fs, wf, rf)
              r   == read_seq_from("RSPC", z.fs, buf, sf)
              seq == (IF r.value = 0 THEN SeqSeed ELSE r.value) + 1
          IN  /\ eyefi_buf' = buf
              /\ inited' = TRUE
              /\ fs' = z.fs
              /\ UNCHANGED <<platform, vols, bufAddr>>
              /\ IF z.raised
                   THEN /\ last' = Rec("init_card", "TypeError",
                                       <<"Locating", "Aligning", "Clearing">>,
                                       z.acc, PyNone, "ok", "", FALSE)
                        /\ UNCHANGED eyefi_seq
                   ELSE IF r.raised
                   THEN /\ last' = Rec("init_card", "TypeError",
                                       <<"Locating", "Aligning", "Clearing", "SequenceSync">>,
                                       z.acc \o r.acc, PyNone, "ok", "", FALSE)
                        /\ UNCHANGED eyefi_seq
                   ELSE /\ last' = Rec("init_card", "Ready",
                                       <<"Locating", "Aligning", "Clearing", "SequenceSync",
                                         "Ready">>,
                                       z.acc \o r.acc, PyNone, "ok", "", FALSE)
                        /\ eyefi_seq' = seq

\* a caller runs align_buf()
CallAlignBuf ==
  /\ eyefi_buf' = align_buf
  /\ last' = Rec("align_buf", "returned", <<>>, <<>>, PyNone, "ok", "", FALSE)
  /\ UNCHANGED <<platform, vols, bufAddr, fs, eyefi_seq, inited>>

\* a caller runs zero_card_files()
CallZeroCardFiles ==
  \E wf \in FaultsOf(WriteFaults, ClearingRuns),
     rf \in [1..3 -> FaultsOf(ReadFaults, ClearingRuns)] :
    LET z == zero_card_files(fs, wf, rf)
    IN  /\ fs' = z.fs
        /\ last' = Rec("zero_card_files", IF z.raised THEN "TypeError" ELSE "returned",
                       <<>>, z.acc, PyNone, "ok", "", FALSE)
        /\ UNCHANGED <<platform, vols, bufAddr, eyefi_buf, eyefi_seq, inited>>

\* a caller runs read_seq_from(file)
CallReadSeqFrom ==
  \E file \in ChannelFiles, fault \in ReadFaults :
    LET r == read_seq_from(file, fs, eyefi_buf, fault)
    IN  /\ last' = Rec("read_seq_from", IF r.raised THEN "TypeError" ELSE "returned",
                       <<>>, r.acc, IF r.raised THEN PyNone ELSE PyInt(r.value),
                       "ok", "", FALSE)
        /\ UNCHANGED <<platform, vols, bufAddr, fs, eyefi_buf, eyefi_seq, inited>>

\* a caller runs locate_eyefi_mount()
CallLocate ==
  LET mnt == locate_eyefi_mount
  IN  /\ last' = Rec("locate_eyefi_mount", "returned", <<>>, <<>>,
                     IF mnt = NoMount THEN PyNone ELSE PyStr(<<mnt>>), "ok", "", FALSE)
      /\ UNCHANGED <<platform, vols, bufAddr, fs, eyefi_buf, eyefi_seq, inited>>

\* a caller runs eyefi_file_on(file, mnt)
CallEyefiFileOn ==
  \E file \in ChannelFiles \cup {"RDIR"}, mnt \in Drives :
    /\ last' = Rec("eyefi_file_on", "returned", <<>>, <<>>, eyefi_file_on(file, mnt),
                   "ok", "", FALSE)
    /\ UNCHANGED <<platform, vols, bufAddr, fs, eyefi_buf, eyefi_seq, inited>>

(***************************************************************************)
(* The session: any host, any scratch address, the channel files all       *)
(* missing or all holding the same record                                  *)
(***************************************************************************)
\* first four bytes a channel file can start with: sequence 0, 5 and 0xFFFF
InitHeads == {<<0, 0, 0, 0>>, <<5, 0, 0, 0>>, <<255, 255, 0, 0>>}

InitFiles == {Absent} \cup {File(h, EYEFI_BUF_SIZE) : h \in InitHeads}

EscIdle ==
  /\ es_in = <<>>
  /\ es_out = <<>>
  /\ es_again = <<>>
  /\ es_pc = "idle"

Init ==
  /\ platform \in {"Windows", "Linux"}
  /\ vols \in [1..NumDrives -> VolStates]
  /\ bufAddr \in ObjAddrs
  /\ \E c \in InitFiles : fs = [p \in Paths |-> c]
  /\ eyefi_buf = BufNone
  /\ eyefi_seq = 0
  /\ inited = FALSE
  /\ last = [op |-> "none", outcome |-> "none", steps |-> <<>>, acc |-> <<>>,
             ret |-> PyNone, cause |-> "ok", msg |-> "", synced |-> FALSE,
             pre_seq |-> 0, pre_buf |-> BufNone, after_init |-> FALSE]
  /\ EscIdle

Next ==
  \/ init_card /\ UNCHANGED escVars
  \/ CallAlignBuf /\ UNCHANGED escVars
  \/ CallZeroCardFiles /\ UNCHANGED escVars
  \/ CallReadSeqFrom /\ UNCHANGED escVars
  \/ CallLocate /\ UNCHANGED escVars
  \/ CallEyefiFileOn /\ UNCHANGED escVars

Spec == Init /\ [][Next]_vars

(***************************************************************************)
(* The file channel: a caller reads and writes channel files directly, on  *)
(* a host whose drive A is the card                                        *)
(***************************************************************************)
\* the paths a caller passes
IOPaths == {<<"RSPM">>, <<"A", "EyeFi", "rspm">>, <<"A", "EyeFi", "reqc">>}

\* the data a caller writes: a zeroed block, a 4-byte record, two blocks
IOData == {ZeroBytes(EYEFI_BUF_SIZE), File(<<1, 2, 3, 4>>, 4),
           File(<<7, 0, 0, 0>>, EYEFI_BUF_SIZE * 2)}

\* a caller runs read_from(file_path)
CallReadFrom ==
  \E file_path \in IOPaths, fault \in ReadFaults :
    LET r == read_from(file_path, fs, fault)
    IN  /\ last' = Rec("read_from", "returned", <<>>, r.acc, r.ret, r.cause, r.msg, FALSE)
        /\ UNCHANGED <<platform, vols, bufAddr, fs, eyefi_buf, eyefi_seq, inited>>

\* a caller runs write_to(file_path, data)
CallWriteTo ==
  \E file_path \in IOPaths, data \in IOData, fault \in WriteFaults :
    LET w == write_to(file_path, data, fs, fault)
    IN  /\ fs' = w.fs
        /\ last' = Rec("write_to", "returned", <<>>, w.acc, w.ret, w.cause, w.msg, w.synced)
        /\ UNCHANGED <<platform, vols, bufAddr, eyefi_buf, eyefi_seq, inited>>

\* a caller runs zero_file(file, mnt)
CallZeroFile ==
  \E file \in {"rspm", "reqc"}, mnt \in {"A"}, fault \in ZeroFaults :
    LET z == zero_file(file, mnt, fs, fault)
    IN  /\ fs' = z.fs
        /\ last' = Rec("zero_file", "returned", <<>>, z.acc, z.ret, z.cause, z.msg, z.synced)
        /\ UNCHANGED <<platform, vols, bufAddr, eyefi_buf, eyefi_seq, inited>>

InitIO ==
  /\ platform = "Windows"
  /\ vols = [i \in 1..NumDrives |-> IF i = 1 THEN "eyefi" ELSE "absent"]
  /\ bufAddr = 65536
  /\ \E c \in InitFiles : fs = [p \in Paths |-> c]
  /\ eyefi_buf = BufNone
  /\ eyefi_seq = 0
  /\ inited = FALSE
  /\ last = [op |-> "none", outcome |-> "none", steps |-> <<>>, acc |-> <<>>,
             ret |-> PyNone, cause |-> "ok", msg |-> "", synced |-> FALSE,
             pre_seq |-> 0, pre_buf |-> BufNone, after_init |-> FALSE]
  /\ EscIdle

NextIO ==
  \/ CallReadFrom /\ UNCHANGED escVars
  \/ CallWriteTo /\ UNCHANGED escVars
  \/ CallZeroFile /\ UNCHANGED escVars

SpecIO == InitIO /\ [][NextIO]_vars

(***************************************************************************)
(* Octal escapes                                                           *)
(***************************************************************************)
Backslash == 92

\* '0' <= o <= '8': one digit too many
atoo_upto8(o) == IF 48 <= o /\ o <= 56 THEN o - 48 ELSE -1

\* int(o, 8) when '0' <= o <= '7', else -1
atoo(o) == IF 48 <= o /\ o <= 55 THEN o - 48 ELSE -1

RECURSIVE OctLoop(_, _, _)
\* for i in range(1, 4), from i on, with ret so far; input_str[i] is the
\* (i+1)-th character
OctLoop(input_str, i, ret) ==
  IF i >= 4 THEN ret
  ELSE LET tmp == atoo(input_str[i + 1])
       IN  IF tmp < 0 THEN tmp ELSE OctLoop(input_str, i + 1, ret * 8 + tmp)

octal_esc_to_chr(input_str) ==
  IF input_str[1] # Backslash \/ Len(input_str) < 4 THEN -1
  ELSE OctLoop(input_str, 1, 0)

RECURSIVE ReplaceLoop(_, _, _)
\* the while loop of replace_escapes at index i (from 0), with output so far
ReplaceLoop(string, i, output) ==
  IF i >= Len(string) THEN output
  ELSE LET esc == octal_esc_to_chr(SubSeq(string, i + 1, Len(string)))
       IN  IF esc >= 0
             THEN ReplaceLoop(string, i + 4, Append(output, esc))
             ELSE ReplaceLoop(string, i + 1, Append(output, string[i + 1]))

replace_escapes(string) == ReplaceLoop(string, 0, <<>>)

\* the characters of the strings tried: backslash, '1', '7', '8'
EscChars == {Backslash, 49, 55, 56}

Strings == UNION {[1..k -> EscChars] : k \in 0..MaxLen}

\* a caller runs replace_escapes(es_in)
CallReplaceEscapes ==
  /\ es_pc = "idle"
  /\ es_out' = replace_escapes(es_in)
  /\ es_pc' = "once"
  /\ UNCHANGED <<es_in, es_again>>

\* the caller runs replace_escapes on the string it got back
CallReplaceAgain ==
  /\ es_pc = "once"
  /\ es_again' = replace_escapes(es_out)
  /\ es_pc' = "twice"
  /\ UNCHANGED <<es_in, es_out>>

InitEsc ==
  /\ platform = "Windows"
  /\ vols = [i \in 1..NumDrives |-> "absent"]
  /\ bufAddr = 65536
  /\ fs = [p \in Paths |-> Absent]
  /\ eyefi_buf = BufNone
  /\ eyefi_seq = 0
  /\ inited = FALSE
  /\ last = [op |-> "none", outcome |-> "none", steps |-> <<>>, acc |-> <<>>,
             ret |-> PyNone, cause |-> "ok", msg |-> "", synced |-> FALSE,
             pre_seq |-> 0, pre_buf |-> BufNone, after_init |-> FALSE]
  /\ es_in \in Strings
  /\ es_out = <<>>
  /\ es_again = <<>>
  /\ es_pc = "idle"

NextEsc ==
  \/ CallReplaceEscapes /\ UNCHANGED sessionVars
  \/ CallReplaceAgain /\ UNCHANGED sessionVars

SpecEsc == InitEsc /\ [][NextEsc]_vars

(***************************************************************************)
(* Properties                                                              *)
(***************************************************************************)
\* the host has a card: it is Windows and some drive letter holds the Eye-Fi volume
CardPresent == platform = "Windows" /\ \E i \in 1..NumDrives : vols[i] = "eyefi"

\* the first drive letter holding the Eye-Fi volume
CardDrive == DriveLetters[CHOOSE i \in 1..NumDrives :
                            vols[i] = "eyefi" /\ \A j \in 1..(i - 1) : vols[j] # "eyefi"]

\* the four channel paths under the control directory of mount mnt
ControlDirPaths(mnt) == {<<mnt, "EyeFi", n>> : n \in {"reqc", "reqm", "rspc", "rspm"}}

\* the logical channel a path names, by its last component
ChannelOf(p) ==
  LET n == p[Len(p)]
  IN  CASE n \in {"REQC", "reqc"} -> "REQC"
        [] n \in {"REQM", "reqm"} -> "REQM"
        [] n \in {"RSPC", "rspc"} -> "RSPC"
        [] n \in {"RSPM", "rspm"} -> "RSPM"
        [] OTHER -> "none"

InitCardEnded == last.op = "init_card"

\* the response-control channel file of the card
CardRspc == fs[<<CardDrive, "EyeFi", "rspc">>]

\* C1: whenever a run of init_card with a card present has ended, and the
\* card's response-control channel holds the sequence value v in its first
\* four bytes (little-endian), the session sequence number is 0x1235 if
\* v = 0 and v + 1 otherwise.
C1_SeqFollowsCard ==
  (InitCardEnded /\ CardPresent /\ CardRspc.present) =>
    LET v == FromBytesLE(CardRspc.head)
    IN  eyefi_seq = (IF v = 0 THEN 4661 ELSE v + 1)

\* C2: whenever a run of init_card has ended on a host where the mount
\* locator has no card to find, it ended in the Unavailable outcome, it
\* opened no file for reading or writing, and the sequence number and the
\* scratch buffer are what they were before the call (the sequence number
\* still its uninitialized 0).
C2_NoCardNoTouch ==
  (InitCardEnded /\ ~CardPresent) =>
    /\ last.outcome = "Unavailable"
    /\ last.acc = <<>>
    /\ eyefi_seq = 0
    /\ eyefi_seq = last.pre_seq
    /\ eyefi_buf = last.pre_buf
    /\ (~last.after_init => ~inited)

\* a run of init_card ended Unavailable on a Windows host that has a drive,
\* with another volume on it, for the locator to scan and reject
C2_Witness ==
  /\ InitCardEnded
  /\ ~CardPresent
  /\ platform = "Windows"
  /\ \E i \in 1..NumDrives : vols[i] = "other"
  /\ last.outcome = "Unavailable"
  /\ fs[<<"A", "EyeFi", "rspc">>].present

\* C3: whenever a run of init_card with a card present has ended, whatever
\* the response-control channel holds, the session sequence number is a
\* non-zero 16-bit value.
C3_SeqNonZero16Bit ==
  (InitCardEnded /\ CardPresent) => (eyefi_seq >= 1 /\ eyefi_seq <= 65535)

\* C4: whenever a run of init_card with a card present has ended, the files
\* it opened are, in order, those of the clearing step and then the
\* sequence read of the response-control channel; the clearing step wrote
\* the response-payload channel and nothing else, and read the
\* request-payload, request-control and response-control channels.
C4_ClearingBeforeSequence ==
  (InitCardEnded /\ CardPresent) =>
    LET acc      == last.acc
        n        == Len(acc)
        clearing == IF n = 0 THEN <<>> ELSE SubSeq(acc, 1, n - 1)
    IN  /\ n >= 1
        /\ acc[n].op = "read" /\ ChannelOf(acc[n].path) = "RSPC"
        /\ \E i \in 1..Len(clearing) :
             clearing[i].op = "write" /\ ChannelOf(clearing[i].path) = "RSPM"
        /\ \A i \in 1..Len(clearing) :
             clearing[i].op = "write" => ChannelOf(clearing[i].path) = "RSPM"
        /\ \A c \in {"REQM", "REQC", "RSPC"} :
             \E i \in 1..Len(clearing) :
               clearing[i].op = "read" /\ ChannelOf(clearing[i].path) = c

\* what op returns when the write succeeded
SuccessReturn(op) ==
  IF op = "write_to"
    THEN write_to(<<"RSPM">>, ZeroBytes(EYEFI_BUF_SIZE), fs, "none").ret
    ELSE zero_file("rspm", "A", fs, "none").ret

\* C5: whenever a call of write_to or zero_file has ended after its open,
\* write, flush or sync step failed, what it returned differs from what the
\* same function returns after a successful write.
C5_WriteFailureReported ==
  (last.op \in {"write_to", "zero_file"} /\ last.cause = "failed") =>
    last.ret # SuccessReturn(last.op)

\* what read_from returns for a path that does not exist
NotFoundReturn ==
  read_from(<<"RSPM">>, [fs EXCEPT ![<<"RSPM">>] = Absent], "none").ret

\* C6: whenever a call of read_from has ended: on success it returned at
\* most EYEFI_BUF_SIZE bytes of the file; for a missing path it returned an
\* error, not bytes; for any other read failure it returned an error that
\* differs from the one it returns for a missing path.
C6_ReadErrorsDistinct ==
  (last.op = "read_from") =>
    /\ last.cause = "ok" =>
         /\ last.ret.t = "bytes"
         /\ last.ret.data.len <= EYEFI_BUF_SIZE
         /\ last.ret.data.len <= fs[last.acc[1].path].len
         /\ last.ret.data.head = fs[last.acc[1].path].head
    /\ last.cause = "notfound" => last.ret.t # "bytes"
    /\ last.cause = "ioerror" => (last.ret.t # "bytes" /\ last.ret # NotFoundReturn)

\* C7: the four logical channels resolve to four distinct paths, all under
\* the control directory of the mount, and whenever init_card or one of the
\* session's channel steps (zero_card_files, read_seq_from) has ended on a
\* host with a card, every file it opened is one of these four paths.
C7_AccessUnderControlDir ==
  /\ \A d \in Drives :
       /\ {eyefi_file_on(f, d).path : f \in ChannelFiles} = ControlDirPaths(d)
       /\ Cardinality({eyefi_file_on(f, d).path : f \in ChannelFiles}) = 4
  /\ (last.op \in {"init_card", "zero_card_files", "read_seq_from"} /\ CardPresent) =>
       \A i \in 1..Len(last.acc) : last.acc[i].path \in ControlDirPaths(CardDrive)

\* the character is one of '0'..'7'
IsOctalDigit(c) == c \in 48..55

\* the four characters of s from position p on are a backslash and three
\* octal digits
ValidEscapeAt(s, p) ==
  /\ p >= 1 /\ p + 3 <= Len(s)
  /\ s[p] = 92
  /\ IsOctalDigit(s[p + 1]) /\ IsOctalDigit(s[p + 2]) /\ IsOctalDigit(s[p + 3])

\* the value of the escape at position p
EscapeValue(s, p) == 64 * (s[p + 1] - 48) + 8 * (s[p + 2] - 48) + (s[p + 3] - 48)

NoValidEscape(s) == \A p \in 1..Len(s) : ~ValidEscapeAt(s, p)

RECURSIVE LeftToRight(_)
\* the left-to-right reading of s: a valid escape at the front gives its
\* value and the reading goes on four characters later, any other
\* character is kept and the reading goes on one character later
LeftToRight(s) ==
  IF s = <<>> THEN <<>>
  ELSE IF ValidEscapeAt(s, 1)
    THEN <<EscapeValue(s, 1)>> \o LeftToRight(SubSeq(s, 5, Len(s)))
    ELSE <<s[1]>> \o LeftToRight(Tail(s))

C9_InitOrder ==
  InitCardEnded =>
    /\ \/ /\ last.outcome = "Ready"
          /\ last.steps = <<"Locating", "Aligning", "Clearing", "SequenceSync", "Ready">>
       \/ /\ last.outcome = "Unavailable"
          /\ last.steps = <<"Locating">>
          /\ ~CardPresent
    /\ CardPresent => last.outcome = "Ready"

\* C10: whenever a run of init_card has ended that began after an earlier
\* run of init_card with a card present, it returned at once: it went
\* through no step, opened no file, and left the sequence number and the
\* scratch buffer as they were.
C10_OncePerSession ==
  (InitCardEnded /\ last.after_init) =>
    /\ last.outcome = "AlreadyInitialized"
    /\ last.steps = <<>>
    /\ last.acc = <<>>
    /\ eyefi_seq = last.pre_seq
    /\ eyefi_buf = last.pre_buf
====
